---------------------------- MODULE Spec2Model ----------------------------
(***************************************************************************)
(* Resume screening service (app/services/extraction.py), its job store    *)
(* (app/db/repositories.py), its endpoints (app/routers/resume.py), the    *)
(* AI tailoring (app/services/ai_adapter.py) and the templates             *)
(* (app/services/template_manager.py).                                     *)
(*                                                                         *)
(* Text is a sequence of one-character strings, so that str.lower,         *)
(* str.strip, the `in` substring test and str.join are computed character  *)
(* by character.  Scores are Python floats in the source; here they are    *)
(* exact rationals [n, d] in lowest terms (d > 0), and round(x, 2) is the  *)
(* rounding of the exact value to hundredths.                              *)
(***************************************************************************)
EXTENDS Integers, Sequences, FiniteSets, TLC

(***************************************************************************)
(* Bounds of the explored inputs.                                          *)
(***************************************************************************)
MaxSkills == 2
MaxEducation == 2
MaxExperience == 3
MaxMinYears == 14
MaxJobs == 2
MaxBatch == 2

VARIABLES
    resume,            \* the Resume passed to screen_resume
    criteria,          \* the ScreeningCriteria passed to screen_resume
    weights,           \* settings.DEFAULT_SCORING_WEIGHTS, in hundredths
    skills_score,      \* screen_resume's local skills_score (unrounded)
    education_score,   \* screen_resume's local education_score (unrounded)
    experience_score,  \* screen_resume's local experience_score (unrounded)
    overall_score,     \* screen_resume's local overall_score (unrounded, capped)
    result,            \* what screen_resume returned or raised; NoResult before the call
    again,             \* what a second call on the same inputs returned or raised
    use_db,            \* LlamaExtractionService._use_db: settings.DATABASE_URL is set
    tables,            \* the database of async_session_maker holds the resume_jobs table
    db_jobs,           \* the resume_jobs table, by job_id
    jobs,              \* LlamaExtractionService.jobs, by job_id
    tasks,             \* the background tasks running extract_resume_data, by job_id
    files,             \* the identifiers under which the upload directory holds a file
    uploads,           \* the number of uploads served
    batch,             \* the screen-resumes request being served
    response,          \* the response to the request last served
    bulk,              \* the bulk-upload request being served
    rendering          \* the create-template request being served

vars ==
    <<resume, criteria, weights, skills_score, education_score,
      experience_score, overall_score, result, again,
      use_db, tables, db_jobs, jobs, tasks, files, uploads, batch, response,
      bulk, rendering>>

\* the variables of the job store and its handlers
service_vars ==
    <<use_db, tables, db_jobs, jobs, tasks, files, uploads, batch, response,
      bulk, rendering>>

(***************************************************************************)
(* Python values.                                                          *)
(***************************************************************************)
NoneStr ==
    [none |-> TRUE, val |-> <<>>]
SomeStr(s) ==
    [none |-> FALSE, val |-> s]
NoneInt ==
    [none |-> TRUE, val |-> 0]
SomeInt(i) ==
    [none |-> FALSE, val |-> i]

\* truthiness of an Optional[str]: None and "" are falsy
TruthyStr(o) ==
    ~o.none /\ Len(o.val) > 0
\* truthiness of an Optional[int]: None and 0 are falsy
TruthyInt(o) ==
    ~o.none /\ o.val # 0

UpperChars ==
    <<"A", "B", "C", "D", "E", "F", "G", "H", "I", "J", "K", "L", "M",
      "N", "O", "P", "Q", "R", "S", "T", "U", "V", "W", "X", "Y", "Z">>
LowerChars ==
    <<"a", "b", "c", "d", "e", "f", "g", "h", "i", "j", "k", "l", "m",
      "n", "o", "p", "q", "r", "s", "t", "u", "v", "w", "x", "y", "z">>
Whitespace ==
    {" ", "\t", "\n", "\r"}

LowerChar(c) ==
    IF \E i \in 1..Len(UpperChars) : UpperChars[i] = c
    THEN LowerChars[CHOOSE i \in 1..Len(UpperChars) : UpperChars[i] = c]
    ELSE c

\* str.lower()
Lower(s) ==
    [i \in 1..Len(s) |-> LowerChar(s[i])]

\* str.strip(): drop leading and trailing whitespace
Strip(s) ==
    LET keep == {i \in 1..Len(s) : s[i] \notin Whitespace}
    IN  IF keep = {} THEN <<>>
        ELSE LET lo == CHOOSE i \in keep : \A j \in keep : i <= j
                 hi == CHOOSE i \in keep : \A j \in keep : j <= i
             IN  SubSeq(s, lo, hi)

\* `sub in text` for strings
Contains(text, sub) ==
    \E i \in 0..(Len(text) - Len(sub)) : SubSeq(text, i + 1, i + Len(sub)) = sub

RECURSIVE Join(_, _)
\* sep.join(list)
Join(sep, list) ==
    IF Len(list) = 0 THEN <<>>
    ELSE IF Len(list) = 1 THEN list[1]
    ELSE list[1] \o sep \o Join(sep, Tail(list))

\* the elements of a list, as set(list) builds them
SetOf(list) ==
    {list[i] : i \in 1..Len(list)}

\* list(set): every element once, in an order the set's hashing decides
ListsOf(S) ==
    {l \in [1..Cardinality(S) -> S] : SetOf(l) = S}

(***************************************************************************)
(* Exact rational arithmetic for the float computations.                   *)
(***************************************************************************)
Abs(i) ==
    IF i < 0 THEN -i ELSE i

RECURSIVE GCD(_, _)
GCD(a, b) ==
    IF b = 0 THEN a ELSE GCD(b, a % b)

Rat(n, d) ==
    LET s == IF d < 0 THEN -1 ELSE 1
        g == GCD(Abs(n), Abs(d))
    IN  [n |-> (s * n) \div g, d |-> (s * d) \div g]

RInt(i) ==
    [n |-> i, d |-> 1]
RAdd(a, b) ==
    Rat(a.n * b.d + b.n * a.d, a.d * b.d)
RMul(a, b) ==
    Rat(a.n * b.n, a.d * b.d)
RLess(a, b) ==
    a.n * b.d < b.n * a.d
RLeq(a, b) ==
    a.n * b.d <= b.n * a.d
RMin(a, b) ==
    IF RLess(b, a) THEN b ELSE a

\* round(x, 2): the nearest hundredth, an exact tie going to the even one
Round2(x) ==
    LET num == x.n * 100
        q == num \div x.d
        r == num - q * x.d
        up == (2 * r > x.d) \/ (2 * r = x.d /\ q % 2 = 1)
    IN  Rat(IF up THEN q + 1 ELSE q, 100)

\* a call's outcome: a value returned, or an exception raised
Ok(v) ==
    [raised |-> FALSE, value |-> v]
Raise(e) ==
    [raised |-> TRUE, exc |-> e]

\* Python's a / b on ints: ZeroDivisionError when b is 0
TrueDiv(a, b) ==
    IF b = 0 THEN Raise("ZeroDivisionError") ELSE Ok(Rat(a, b))

Max(a, b) ==
    IF a >= b THEN a ELSE b

(***************************************************************************)
(* Skills matching.                                                        *)
(***************************************************************************)
\* _normalize_skills without lower()
normalize_skills_keeping_case(skills) ==
    LET kept == SelectSeq(skills, LAMBDA skill : Len(Strip(skill)) > 0)
    IN  [i \in 1..Len(kept) |-> Strip(kept[i])]

_normalize_skills(skills) ==
    LET kept == SelectSeq(skills, LAMBDA skill : Len(Strip(skill)) > 0)
    IN  [i \in 1..Len(kept) |-> Strip(Lower(kept[i]))]

\* required_score taking an empty required set as fully met
required_score_full_when_empty(matched_required, normalized_required) ==
    IF normalized_required = {} THEN RInt(1)
    ELSE Rat(Cardinality(matched_required), Cardinality(normalized_required))

required_score(matched_required, normalized_required) ==
    Rat(Cardinality(matched_required), Max(Cardinality(normalized_required), 1))

preferred_score(matched_preferred, normalized_preferred) ==
    IF normalized_preferred # {}
    THEN Rat(Cardinality(matched_preferred), Max(Cardinality(normalized_preferred), 1))
    ELSE RInt(0)

\* the sets are turned into lists by the caller's choice in ListsOf
_calculate_skills_score(resume_skills, criteria_) ==
    LET normalized_resume_skills == SetOf(_normalize_skills(resume_skills))
        normalized_required == SetOf(_normalize_skills(criteria_.required_skills))
        normalized_preferred == SetOf(_normalize_skills(criteria_.preferred_skills))
        matched_required == normalized_resume_skills \cap normalized_required
        matched_preferred == normalized_resume_skills \cap normalized_preferred
        missing_required == normalized_required \ normalized_resume_skills
        score == RAdd(RMul(required_score(matched_required, normalized_required), Rat(8, 10)),
                      RMul(preferred_score(matched_preferred, normalized_preferred), Rat(2, 10)))
    IN  [skills_score |-> RMul(score, RInt(100)),
         matched_required |-> matched_required,
         matched_preferred |-> matched_preferred,
         missing_required |-> missing_required]

(***************************************************************************)
(* Education scoring.                                                      *)
(***************************************************************************)
KeyHighSchool ==
    <<"h", "i", "g", "h", " ", "s", "c", "h", "o", "o", "l">>
KeyAssociate ==
    <<"a", "s", "s", "o", "c", "i", "a", "t", "e">>
KeyBachelor ==
    <<"b", "a", "c", "h", "e", "l", "o", "r">>
KeyMaster ==
    <<"m", "a", "s", "t", "e", "r">>
KeyPhd ==
    <<"p", "h", "d">>
KeyDoctorate ==
    <<"d", "o", "c", "t", "o", "r", "a", "t", "e">>

\* the dict, in insertion order
education_levels ==
    <<[name |-> KeyHighSchool, value |-> 1],
      [name |-> KeyAssociate, value |-> 2],
      [name |-> KeyBachelor, value |-> 3],
      [name |-> KeyMaster, value |-> 4],
      [name |-> KeyPhd, value |-> 5],
      [name |-> KeyDoctorate, value |-> 5]>>

\* education_levels.get(key, 0)
required_level(level) ==
    LET key == Lower(level)
        hit == {i \in 1..Len(education_levels) : education_levels[i].name = key}
    IN  IF hit = {} THEN 0 ELSE education_levels[CHOOSE i \in hit : TRUE].value

\* the inner loop over education_levels.items(): the first key found in the
\* degree decides, and the loop breaks; 0 stands for no key found
degree_level(degree_text) ==
    LET degree == Lower(degree_text)
        hits == {i \in 1..Len(education_levels) : Contains(degree, education_levels[i].name)}
    IN  IF hits = {} THEN 0
        ELSE education_levels[CHOOSE i \in hits : \A j \in hits : i <= j].value

\* max_candidate_level keeping the last entry's level instead of the maximum
max_candidate_level_last(education, acc) ==
    IF Len(education) = 0 THEN acc
    ELSE degree_level(education[Len(education)].degree)

RECURSIVE max_candidate_level(_, _)
\* the outer loop over the education entries, from the running maximum acc
max_candidate_level(education, acc) ==
    IF Len(education) = 0 THEN acc
    ELSE max_candidate_level(Tail(education), Max(acc, degree_level(Head(education).degree)))

\* level_reached with > for >=
level_reached_strict(candidate, required) ==
    candidate > required

level_reached(candidate, required) ==
    candidate >= required

_calculate_education_score(education, criteria_) ==
    IF ~TruthyStr(criteria_.required_education_level) THEN Ok(RInt(100))
    ELSE LET required == required_level(criteria_.required_education_level.val)
             candidate == max_candidate_level(education, 0)
         IN  IF level_reached(candidate, required) THEN Ok(RInt(100))
             ELSE LET q == TrueDiv(candidate, required)
                  IN  IF q.raised THEN q ELSE Ok(RMul(q.value, RInt(100)))

(***************************************************************************)
(* Experience scoring.                                                     *)
(***************************************************************************)
\* _calculate_experience_years counting one year per entry
experience_years_one_each(experiences) ==
    Len(experiences)

_calculate_experience_years(experiences) ==
    Len(experiences) * 2

_calculate_experience_score(experiences, criteria_) ==
    IF ~TruthyInt(criteria_.min_years_experience) THEN Ok(RInt(100))
    ELSE LET total_years == _calculate_experience_years(experiences)
             min_years == criteria_.min_years_experience.val
         IN  IF total_years >= min_years THEN Ok(RInt(100))
             ELSE LET q == TrueDiv(total_years, min_years)
                  IN  IF q.raised THEN q ELSE Ok(RMul(q.value, RInt(100)))


(***************************************************************************)
(* screen_resume.                                                          *)
(***************************************************************************)
all_skills(resume_) ==
    resume_.technical_skills.programming_languages
        \o resume_.technical_skills.frameworks
        \o resume_.technical_skills.skills

\* weighted_sum with the accomplishments weight added as a fourth term
weighted_sum_with_accomplishments(skills, experience, education, weights_) ==
    RAdd(RAdd(RAdd(RMul(skills, Rat(weights_.skills, 100)),
                   RMul(experience, Rat(weights_.experience, 100))),
              RMul(education, Rat(weights_.education, 100))),
         Rat(weights_.accomplishments, 100))

\* weights are kept in hundredths: 40 stands for 0.4
weighted_sum(skills, experience, education, weights_) ==
    RAdd(RAdd(RMul(skills, Rat(weights_.skills, 100)),
              RMul(experience, Rat(weights_.experience, 100))),
         RMul(education, Rat(weights_.education, 100)))

accomplishments_bonus(key_accomplishments) ==
    IF Len(key_accomplishments) > 0
    THEN RMin(RInt(10), Rat(Len(key_accomplishments), 50))
    ELSE RInt(0)

\* cap_overall without the cap
cap_overall_missing(overall) ==
    overall

cap_overall(overall) ==
    RMin(RInt(100), overall)

is_qualified(missing_required, overall) ==
    Len(missing_required) = 0 /\ RLeq(RInt(60), overall)

Recommendation(text, detail) ==
    [text |-> text, detail |-> detail]

MissingSkillsText ==
    "Missing required skills: "
EducationBelowText ==
    "Education level below preferred requirement"
ExperienceBelowText ==
    "Experience level below minimum requirement"
StrongText ==
    "Strong candidate - recommended for interview"
GoodText ==
    "Good candidate - consider for screening call"
BelowText ==
    "Below minimum requirements"

\* the f-string's joined skills are the entry's detail
recommendations_for(missing_required, education, experience, overall) ==
    (IF Len(missing_required) > 0
     THEN <<Recommendation(MissingSkillsText, Join(<<",", " ">>, missing_required))>>
     ELSE <<>>)
    \o (IF RLess(education, RInt(80))
        THEN <<Recommendation(EducationBelowText, <<>>)>> ELSE <<>>)
    \o (IF RLess(experience, RInt(70))
        THEN <<Recommendation(ExperienceBelowText, <<>>)>> ELSE <<>>)
    \o (IF RLeq(RInt(80), overall) THEN <<Recommendation(StrongText, <<>>)>>
        ELSE IF RLeq(RInt(60), overall) THEN <<Recommendation(GoodText, <<>>)>>
        ELSE <<Recommendation(BelowText, <<>>)>>)

Unset ==
    [unset |-> TRUE]
NoResult ==
    [kind |-> "none"]
Raised(e) ==
    [kind |-> "raised", exc |-> e]

\* the return statement; resume_id is a fresh uuid and is left out
ScreeningResult(resume_, overall, skills, experience, education, matched_required, matched_preferred, missing_required, recommendations, qualified) ==
    [kind |-> "returned",
     candidate_name |-> resume_.name,
     candidate_email |-> resume_.email,
     overall_score |-> Round2(overall),
     skills_score |-> Round2(skills),
     experience_score |-> Round2(experience),
     education_score |-> Round2(education),
     matched_required_skills |-> matched_required,
     matched_preferred_skills |-> matched_preferred,
     missing_required_skills |-> missing_required,
     recommendations |-> recommendations,
     qualified |-> qualified]

\* Every outcome of one call: the locals it leaves and what it returns or
\* raises.  The three skill lists come from list(set), in any order.
screen_resume(resume_, criteria_, weights_) ==
    LET sk == _calculate_skills_score(all_skills(resume_), criteria_)
        edu == _calculate_education_score(resume_.education, criteria_)
        exp == _calculate_experience_score(resume_.experience, criteria_)
    IN  IF edu.raised
        THEN {[skills_score |-> sk.skills_score, education_score |-> Unset,
               experience_score |-> Unset, overall_score |-> Unset,
               result |-> Raised(edu.exc)]}
        ELSE IF exp.raised
        THEN {[skills_score |-> sk.skills_score, education_score |-> edu.value,
               experience_score |-> Unset, overall_score |-> Unset,
               result |-> Raised(exp.exc)]}
        ELSE LET overall == cap_overall(
                     RAdd(weighted_sum(sk.skills_score, exp.value, edu.value, weights_),
                          accomplishments_bonus(resume_.key_accomplishments)))
             IN  {[skills_score |-> sk.skills_score,
                   education_score |-> edu.value,
                   experience_score |-> exp.value,
                   overall_score |-> overall,
                   result |-> ScreeningResult(
                       resume_, overall, sk.skills_score, exp.value, edu.value,
                       matched_required, matched_preferred, missing_required,
                       recommendations_for(missing_required, edu.value, exp.value, overall),
                       is_qualified(missing_required, overall))] :
                  matched_required \in ListsOf(sk.matched_required),
                  matched_preferred \in ListsOf(sk.matched_preferred),
                  missing_required \in ListsOf(sk.missing_required)}


(***************************************************************************)
(* Inputs.                                                                 *)
(***************************************************************************)
SkPython ==
    <<"P", "y", "t", "h", "o", "n">>
SkPythonLower ==
    <<"p", "y", "t", "h", "o", "n">>
SkPythonPadded ==
    <<" ", "p", "y", "t", "h", "o", "n", " ">>
SkJava ==
    <<"J", "a", "v", "a">>
SkJavaLower ==
    <<"j", "a", "v", "a">>
SkSql ==
    <<"S", "Q", "L">>
SkBlank ==
    <<" ", " ">>
SkEmpty ==
    <<>>

SkillPool ==
    {SkPython, SkPythonPadded, SkJava, SkBlank, SkEmpty}

DegBachelorOfArts ==
    <<"B", "a", "c", "h", "e", "l", "o", "r", " ", "o", "f", " ", "A", "r", "t", "s">>
DegMasterOfScience ==
    <<"M", "a", "s", "t", "e", "r", " ", "o", "f", " ", "S", "c", "i", "e", "n", "c", "e">>
DegBachelorAndMaster ==
    <<"B", "a", "c", "h", "e", "l", "o", "r", " ", "a", "n", "d", " ", "M", "a", "s", "t", "e", "r">>
DegPhD ==
    <<"P", "h", "D">>
DegHighSchool ==
    <<"H", "i", "g", "h", " ", "S", "c", "h", "o", "o", "l">>
DegAssociate ==
    <<"A", "s", "s", "o", "c", "i", "a", "t", "e">>
DegDiploma ==
    <<"D", "i", "p", "l", "o", "m", "a">>
DegDoctorate ==
    <<"D", "O", "C", "T", "O", "R", "A", "T", "E">>

DegreePool ==
    {DegBachelorOfArts, DegMasterOfScience, DegBachelorAndMaster, DegPhD,
     DegHighSchool, DegAssociate, DegDiploma, DegDoctorate}

LvlMBA ==
    <<"M", "B", "A">>
LvlPaddedPhd ==
    <<" ", "p", "h", "d">>
LvlMaster ==
    <<"M", "a", "s", "t", "e", "r">>

\* required_education_level: unset, empty, the six keys in some casing, and
\* strings that are no key
LevelPool ==
    {NoneStr, SomeStr(<<>>), SomeStr(KeyPhd), SomeStr(DegPhD), SomeStr(KeyBachelor),
     SomeStr(LvlMaster), SomeStr(KeyAssociate), SomeStr(DegHighSchool),
     SomeStr(KeyDoctorate), SomeStr(LvlMBA), SomeStr(LvlPaddedPhd)}

\* all lists over S of length at most n
SeqUpTo(S, n) ==
    UNION {[1..k -> S] : k \in 0..n}

Education(degree) ==
    [institution |-> "institution", degree |-> degree]
Experience ==
    [company |-> "company", title |-> "title"]
Experiences(n) ==
    [i \in 1..n |-> Experience]
\* a text of the given length
Text(len) ==
    [i \in 1..len |-> "x"]

TechnicalSkills(programming_languages, frameworks, skills) ==
    [programming_languages |-> programming_languages,
     frameworks |-> frameworks, skills |-> skills]

Resume(experience, education, technical_skills, key_accomplishments) ==
    [name |-> "name", email |-> "email", experience |-> experience,
     education |-> education, technical_skills |-> technical_skills,
     key_accomplishments |-> key_accomplishments]

ScreeningCriteria(required_skills, preferred_skills, min_years_experience, required_education_level) ==
    [required_skills |-> required_skills, preferred_skills |-> preferred_skills,
     min_years_experience |-> min_years_experience,
     required_education_level |-> required_education_level]

DEFAULT_SCORING_WEIGHTS ==
    [skills |-> 40, experience |-> 30, education |-> 20, accomplishments |-> 10]

\* the default, and overrides of the setting
WeightProfiles ==
    {DEFAULT_SCORING_WEIGHTS,
     [skills |-> 40, experience |-> 30, education |-> 20, accomplishments |-> 90],
     [skills |-> 50, experience |-> 25, education |-> 25, accomplishments |-> 0]}

MinYearsRange ==
    {NoneInt} \cup {SomeInt(m) : m \in (-1)..MaxMinYears}

\* lengths of key_accomplishments: empty, short, and past the bonus's cap
AccomplishmentLengths ==
    {0, 7, 520}

\* resume skills against required and preferred skills: all matched, all and
\* the preferred matched, one of two matched, nothing required, nothing at all
SkillCases ==
    {<<TechnicalSkills(<<SkPython>>, <<>>, <<>>), <<SkPythonLower>>, <<>>>>,
     <<TechnicalSkills(<<SkPython>>, <<SkJava>>, <<>>), <<SkPythonLower>>, <<SkJavaLower>>>>,
     <<TechnicalSkills(<<SkPython>>, <<>>, <<>>), <<SkPythonLower, SkSql>>, <<>>>>,
     <<TechnicalSkills(<<>>, <<>>, <<SkPython>>), <<>>, <<SkPythonLower, SkJava>>>>,
     <<TechnicalSkills(<<>>, <<>>, <<>>), <<>>, <<>>>>}

\* education entries against a required level: nothing required, below,
\* met, further below, and no entry at all
EducationCases ==
    {<<<<>>, NoneStr>>,
     <<<<Education(DegBachelorOfArts)>>, SomeStr(LvlMaster)>>,
     <<<<Education(DegMasterOfScience)>>, SomeStr(LvlMaster)>>,
     <<<<Education(DegBachelorOfArts)>>, SomeStr(KeyPhd)>>,
     <<<<>>, SomeStr(KeyPhd)>>}

\* the scores' arithmetic: counts, minimum years, levels, bonus and weights
InitScores ==
    /\ \E sc \in SkillCases, n \in 0..MaxExperience, m \in MinYearsRange,
          ec \in EducationCases, len \in AccomplishmentLengths :
            /\ resume = Resume(Experiences(n), ec[1], sc[1], Text(len))
            /\ criteria = ScreeningCriteria(sc[2], sc[3], m, ec[2])
    /\ weights \in WeightProfiles

\* the education entries and the required level
InitEducation ==
    /\ \E edu \in SeqUpTo({Education(d) : d \in DegreePool}, MaxEducation), lvl \in LevelPool :
            /\ resume = Resume(Experiences(1), edu,
                               TechnicalSkills(<<SkPython>>, <<>>, <<>>), <<>>)
            /\ criteria = ScreeningCriteria(<<SkPythonLower>>, <<>>, NoneInt, lvl)
    /\ weights = DEFAULT_SCORING_WEIGHTS

\* the skill strings: the resume's lists, then the required, then the
\* preferred skills
InitSkills ==
    /\ \/ \E pl \in SeqUpTo(SkillPool, MaxSkills), fw \in {<<>>, <<SkJavaLower>>},
             sk \in {<<>>, <<SkSql>>},
             req \in {<<>>, <<SkPythonLower>>, <<SkJava, SkSql>>, <<SkBlank>>},
             pref \in {<<>>, <<SkJavaLower>>, <<SkPythonPadded, SkSql>>} :
            /\ resume = Resume(Experiences(1), <<>>, TechnicalSkills(pl, fw, sk), <<>>)
            /\ criteria = ScreeningCriteria(req, pref, NoneInt, NoneStr)
       \/ \E req \in SeqUpTo(SkillPool, MaxSkills),
             pref \in {<<>>, <<SkJavaLower>>, <<SkPythonPadded, SkSql>>},
             ts \in {TechnicalSkills(<<>>, <<>>, <<>>),
                     TechnicalSkills(<<SkPythonLower>>, <<>>, <<>>),
                     TechnicalSkills(<<SkJava>>, <<SkPython>>, <<SkSql>>)} :
            /\ resume = Resume(Experiences(1), <<>>, ts, <<>>)
            /\ criteria = ScreeningCriteria(req, pref, NoneInt, NoneStr)
       \/ \E pref \in SeqUpTo(SkillPool, MaxSkills),
             req \in {<<>>, <<SkPythonLower>>, <<SkJava, SkSql>>},
             ts \in {TechnicalSkills(<<>>, <<>>, <<>>),
                     TechnicalSkills(<<SkPythonLower>>, <<>>, <<>>),
                     TechnicalSkills(<<SkJava>>, <<SkPython>>, <<SkSql>>)} :
            /\ resume = Resume(Experiences(1), <<>>, ts, <<>>)
            /\ criteria = ScreeningCriteria(req, pref, NoneInt, NoneStr)
    /\ weights = DEFAULT_SCORING_WEIGHTS

\* the empty inputs: no skills, entries or accomplishments on either side,
\* no minimum of years or a minimum of 0, no level or one that is no key
InitEmpty ==
    /\ \E m \in {NoneInt, SomeInt(0)}, lvl \in {NoneStr, SomeStr(<<>>), SomeStr(LvlMBA)} :
            /\ resume = Resume(<<>>, <<>>, TechnicalSkills(<<>>, <<>>, <<>>), <<>>)
            /\ criteria = ScreeningCriteria(<<>>, <<>>, m, lvl)
    /\ weights = DEFAULT_SCORING_WEIGHTS

\* nothing called yet
InitCall ==
    /\ skills_score = Unset
    /\ education_score = Unset
    /\ experience_score = Unset
    /\ overall_score = Unset
    /\ result = NoResult
    /\ again = NoResult

(***************************************************************************)
(* The service's state: the resume_jobs table, self.jobs, the background   *)
(* tasks, the upload directory and the screen-resumes request.             *)
(***************************************************************************)
\* the uuids of files and jobs: the n-th that the uploads draw is n, and an
\* upload draws two
Uuids ==
    1..(2 * MaxJobs)

None ==
    [none |-> TRUE]
Some(v) ==
    [none |-> FALSE, val |-> v]

\* no row in the table, no key in self.jobs, None from get_job_status
NoJob ==
    [exists |-> FALSE]

NoTask ==
    [pc |-> "none"]

IdleBatch ==
    [pc |-> "idle"]

NoResponse ==
    [status_code |-> 0]
IdleBulk ==
    [pc |-> "idle"]
NoRendering ==
    [pc |-> "none"]

\* LlamaExtractionService.__init__ on an empty database and upload directory
InitService ==
    /\ db_jobs = [u \in Uuids |-> NoJob]
    /\ jobs = [u \in Uuids |-> NoJob]
    /\ tasks = [u \in Uuids |-> NoTask]
    /\ files = {}
    /\ uploads = 0
    /\ batch = IdleBatch
    /\ response = NoResponse
    /\ bulk = IdleBulk
    /\ rendering = NoRendering

Init ==
    /\ InitScores \/ InitEducation \/ InitSkills \/ InitEmpty
    /\ InitCall
    /\ use_db = FALSE
    /\ tables = FALSE
    /\ InitService

\* the arguments with the required skills extended in place
arguments_after_extending(resume_, criteria_, weights_) ==
    [resume |-> resume_,
     criteria |-> [criteria_ EXCEPT !.required_skills = @ \o all_skills(resume_)],
     weights |-> weights_]

\* the objects passed to screen_resume, and the weights it reads from the
\* settings, as the call leaves them: it assigns to none of their attributes
\* or items, and the skill lists are concatenated into a new list
arguments_after(resume_, criteria_, weights_) ==
    [resume |-> resume_, criteria |-> criteria_, weights |-> weights_]

(***************************************************************************)
(* One call of screen_resume on the inputs.                                *)
(***************************************************************************)
ScreenResume ==
    /\ result = NoResult
    /\ \E out \in screen_resume(resume, criteria, weights) :
            /\ skills_score' = out.skills_score
            /\ education_score' = out.education_score
            /\ experience_score' = out.experience_score
            /\ overall_score' = out.overall_score
            /\ result' = out.result
    /\ LET after == arguments_after(resume, criteria, weights)
       IN  /\ resume' = after.resume
           /\ criteria' = after.criteria
           /\ weights' = after.weights
    /\ UNCHANGED again
    /\ UNCHANGED service_vars

Next ==
    ScreenResume

\* a second call of screen_resume on the objects the first call was passed
ScreenAgain ==
    /\ result # NoResult
    /\ again = NoResult
    /\ \E out \in screen_resume(resume, criteria, weights) :
            again' = out.result
    /\ LET after == arguments_after(resume, criteria, weights)
       IN  /\ resume' = after.resume
           /\ criteria' = after.criteria
           /\ weights' = after.weights
    /\ UNCHANGED <<skills_score, education_score, experience_score, overall_score, result>>
    /\ UNCHANGED service_vars

Spec ==
    Init /\ [][Next]_vars

\* the skill and education inputs, screened twice
InitRepeat ==
    /\ InitEducation \/ InitSkills \/ InitEmpty
    /\ InitCall
    /\ use_db = FALSE
    /\ tables = FALSE
    /\ InitService

NextRepeat ==
    \/ ScreenResume
    \/ ScreenAgain

SpecRepeat ==
    InitRepeat /\ [][NextRepeat]_vars


(***************************************************************************)
(* Properties of screen_resume.                                            *)
(***************************************************************************)
Returned ==
    result.kind = "returned"

Called ==
    result.kind # "none"

\* a list without repeated entries
NoDuplicates(list) ==
    Cardinality(SetOf(list)) = Len(list)

\* the normalized form of a skill list, as a set: blank entries dropped, the
\* others lowercased and trimmed
NormalizedSet(list) ==
    {Strip(Lower(list[i])) : i \in {j \in 1..Len(list) : Strip(list[j]) # <<>>}}

ResumeSkillSet ==
    NormalizedSet(resume.technical_skills.programming_languages)
        \cup NormalizedSet(resume.technical_skills.frameworks)
        \cup NormalizedSet(resume.technical_skills.skills)

RequiredSet ==
    NormalizedSet(criteria.required_skills)

PreferredSet ==
    NormalizedSet(criteria.preferred_skills)

\* C1: in every returned result, qualified is true if and only if
\* missing_required_skills is empty and the returned (rounded) overall_score
\* is at least 60.
C1_QualifiedIffReported ==
    Returned =>
        (result.qualified <=>
            (Len(result.missing_required_skills) = 0
             /\ RLeq(RInt(60), result.overall_score)))

\* C2: each of the four scores of a returned result lies in [0, 100].
C2_ScoresInRange ==
    Returned =>
        \A s \in {result.overall_score, result.skills_score,
                  result.experience_score, result.education_score} :
            RLeq(RInt(0), s) /\ RLeq(s, RInt(100))

\* C2 witness: a result whose weighted sum plus bonus went past 100 and was
\* capped, next to a minimum of years below zero.
C2_Witness ==
    /\ Returned
    /\ result.overall_score = RInt(100)
    /\ Len(resume.key_accomplishments) > 0
    /\ result.skills_score = RInt(100)
    /\ criteria.min_years_experience = SomeInt(-1)

\* C3: the three skill lists of a result are the intersections and the
\* difference of the normalized sets, hold no duplicates and only lowercased,
\* trimmed strings, and matched and missing required skills partition the
\* normalized required set.
C3_SkillLists ==
    Returned =>
        LET matched == result.matched_required_skills
            preferred == result.matched_preferred_skills
            missing == result.missing_required_skills
        IN  /\ SetOf(matched) = ResumeSkillSet \cap RequiredSet
            /\ SetOf(preferred) = ResumeSkillSet \cap PreferredSet
            /\ SetOf(missing) = RequiredSet \ ResumeSkillSet
            /\ NoDuplicates(matched) /\ NoDuplicates(preferred) /\ NoDuplicates(missing)
            /\ \A s \in SetOf(matched) \cup SetOf(preferred) \cup SetOf(missing) :
                    Lower(s) = s /\ Strip(s) = s /\ s # <<>>
            /\ SetOf(matched) \cup SetOf(missing) = RequiredSet
            /\ SetOf(matched) \cap SetOf(missing) = {}

\* C3 witness: a result with a matched and a missing required skill and a
\* matched preferred skill, from lists that held a skill in two spellings.
C3_Witness ==
    /\ Returned
    /\ Len(result.matched_required_skills) > 0
    /\ Len(result.missing_required_skills) > 0
    /\ Len(result.matched_preferred_skills) > 0
    /\ \E i, j \in 1..Len(all_skills(resume)) :
            /\ all_skills(resume)[i] # all_skills(resume)[j]
            /\ Strip(Lower(all_skills(resume)[i])) = Strip(Lower(all_skills(resume)[j]))
            /\ Strip(all_skills(resume)[i]) # <<>>

\* the skills score of the formula, from the cardinalities
SkillsFormula(matched_required, required, matched_preferred, preferred) ==
    LET r == IF required = 0 THEN 1 ELSE required
    IN  IF preferred = 0
        THEN Rat(80 * matched_required, r)
        ELSE Rat(80 * matched_required * preferred + 20 * matched_preferred * r,
                 r * preferred)

\* C4: the unrounded skills score is (required_score * 0.8 + preferred_score
\* * 0.2) * 100 over the normalized sets; with no required skill it is at
\* most 20, and with no required and no preferred skill it is 0.
C4_SkillsScore ==
    Called =>
        /\ skills_score =
              SkillsFormula(Cardinality(ResumeSkillSet \cap RequiredSet),
                            Cardinality(RequiredSet),
                            Cardinality(ResumeSkillSet \cap PreferredSet),
                            Cardinality(PreferredSet))
        /\ RequiredSet = {} => RLeq(skills_score, RInt(20))
        /\ (RequiredSet = {} /\ PreferredSet = {}) => skills_score = RInt(0)

\* C4 witness: no required skill after normalizing a non-empty list, and every
\* preferred skill matched: the score is 20.
C4_Witness ==
    /\ Returned
    /\ Len(criteria.required_skills) > 0
    /\ RequiredSet = {}
    /\ skills_score = RInt(20)

\* the ordinal of a required level: its lowercased text looked up
LevelOrdinal(level) ==
    LET key == Lower(level)
    IN  IF key = KeyHighSchool THEN 1
        ELSE IF key = KeyAssociate THEN 2
        ELSE IF key = KeyBachelor THEN 3
        ELSE IF key = KeyMaster THEN 4
        ELSE IF key \in {KeyPhd, KeyDoctorate} THEN 5
        ELSE 0

\* the ordinal matched in a degree text: that of the first key, in the
\* vocabulary's order, that the lowercased text contains
EntryOrdinal(degree_text) ==
    LET t == Lower(degree_text)
    IN  IF Contains(t, KeyHighSchool) THEN 1
        ELSE IF Contains(t, KeyAssociate) THEN 2
        ELSE IF Contains(t, KeyBachelor) THEN 3
        ELSE IF Contains(t, KeyMaster) THEN 4
        ELSE IF Contains(t, KeyPhd) \/ Contains(t, KeyDoctorate) THEN 5
        ELSE 0

\* the largest of a set of naturals, 0 for the empty set
Largest(S) ==
    IF S = {} THEN 0 ELSE CHOOSE x \in S : \A y \in S : y <= x

CandidateOrdinal ==
    Largest({EntryOrdinal(resume.education[i].degree) : i \in 1..Len(resume.education)})

\* the education score of the formula for a candidate ordinal c
EducationFormula(c) ==
    IF criteria.required_education_level.none THEN RInt(100)
    ELSE LET r == LevelOrdinal(criteria.required_education_level.val)
         IN  IF c >= r THEN RInt(100) ELSE Rat(100 * c, r)

\* C5: the education score is 100 without a required level; otherwise, with
\* r the required ordinal and c the largest ordinal matched over the entries,
\* it is 100 when c >= r and (c / r) * 100 when c < r.
C5_EducationScore ==
    Returned => education_score = EducationFormula(CandidateOrdinal)

\* C5 witness: phd required of a candidate with a Bachelor of Arts scores 60.
C5_Witness ==
    /\ Returned
    /\ criteria.required_education_level = SomeStr(KeyPhd)
    /\ \E i \in 1..Len(resume.education) : resume.education[i].degree = DegBachelorOfArts
    /\ Len(resume.education) > 1
    /\ education_score = RInt(60)
    /\ result.education_score = RInt(60)


\* the largest ordinal over all the keys that a degree text contains
AllKeysOrdinal(degree_text) ==
    LET t == Lower(degree_text)
    IN  Largest({v[2] : v \in {w \in {<<KeyHighSchool, 1>>, <<KeyAssociate, 2>>,
                                       <<KeyBachelor, 3>>, <<KeyMaster, 4>>,
                                       <<KeyPhd, 5>>, <<KeyDoctorate, 5>>} :
                                Contains(t, w[1])}})

\* C6: taking the first key found in a degree text does not affect the
\* outcome: the education score is the one obtained when every degree text
\* counts with the largest ordinal of all the keys it contains.
C6_FirstMatchIsLargest ==
    Returned =>
        education_score =
            EducationFormula(Largest({AllKeysOrdinal(resume.education[i].degree) :
                                          i \in 1..Len(resume.education)}))

\* a required level that is set, not empty, and none of the six keys
UnrecognizedLevel ==
    /\ ~criteria.required_education_level.none
    /\ criteria.required_education_level.val # <<>>
    /\ LevelOrdinal(criteria.required_education_level.val) = 0

\* C7: with a required level that is no vocabulary key, the call returns and
\* the education score is 100 for every resume; nothing is divided by zero.
C7_UnrecognizedLevelScores100 ==
    (Called /\ UnrecognizedLevel) =>
        /\ Returned
        /\ education_score = RInt(100)
        /\ result.education_score = RInt(100)

\* C7 witness: an unrecognized level screened against a resume without any
\* education entry.
C7_Witness ==
    /\ Returned
    /\ UnrecognizedLevel
    /\ resume.education = <<>>
    /\ education_score = RInt(100)

\* C8: the experience score is 100 when the minimum is absent or zero or at
\* most twice the number of entries, and (2 * entries / minimum) * 100
\* otherwise.
C8_ExperienceScore ==
    Returned =>
        LET total_years == 2 * Len(resume.experience)
            m == criteria.min_years_experience
        IN  IF m.none \/ m.val = 0 THEN experience_score = RInt(100)
            ELSE IF total_years >= m.val THEN experience_score = RInt(100)
            ELSE experience_score = Rat(100 * total_years, m.val)

\* C8 witness: one entry against a minimum of 4 years scores 50.
C8_Witness ==
    /\ Returned
    /\ Len(resume.experience) = 1
    /\ criteria.min_years_experience = SomeInt(4)
    /\ experience_score = RInt(50)
    /\ result.experience_score = RInt(50)

\* the bonus of the formula for a text of the given length
BonusFormula(len) ==
    IF len = 0 THEN RInt(0)
    ELSE IF len >= 500 THEN RInt(10)
    ELSE Rat(len, 50)

\* the overall score of the formula, from the three weights in hundredths
OverallFormula(s, e, d, len, w_skills, w_experience, w_education) ==
    LET sum == RMul(RAdd(RAdd(RMul(s, RInt(w_skills)), RMul(e, RInt(w_experience))),
                         RMul(d, RInt(w_education))),
                    Rat(1, 100))
        total == RAdd(sum, BonusFormula(len))
    IN  IF RLess(RInt(100), total) THEN RInt(100) ELSE total

\* C9: the overall score is min(100, weighted sum of the three scores +
\* bonus), the bonus being min(10, len / 50) of a non-empty
\* key_accomplishments and 0 otherwise; the accomplishments weight does not
\* change it.
C9_OverallScore ==
    Returned =>
        /\ overall_score =
              OverallFormula(skills_score, experience_score, education_score,
                             Len(resume.key_accomplishments),
                             weights.skills, weights.experience, weights.education)
        /\ result.overall_score = Round2(overall_score)
        /\ \A a \in {0, 55} :
              \A out \in screen_resume(resume, criteria,
                                       [weights EXCEPT !.accomplishments = a]) :
                    /\ out.overall_score = overall_score
                    /\ out.result.overall_score = result.overall_score

\* C9 witness: an accomplishments weight other than the default, a bonus at
\* its cap of 10, and an overall score below 100.
C9_Witness ==
    /\ Returned
    /\ weights.accomplishments = 90
    /\ Len(resume.key_accomplishments) > 500
    /\ RLess(overall_score, RInt(100))
    /\ RLess(RInt(10), overall_score)

\* the recommendations that the scores reported in the result call for
ReportedRecommendations ==
    (IF Len(result.missing_required_skills) > 0
     THEN <<[text |-> MissingSkillsText,
             detail |-> Join(<<",", " ">>, result.missing_required_skills)]>>
     ELSE <<>>)
    \o (IF RLess(result.education_score, RInt(80))
        THEN <<[text |-> EducationBelowText, detail |-> <<>>]>> ELSE <<>>)
    \o (IF RLess(result.experience_score, RInt(70))
        THEN <<[text |-> ExperienceBelowText, detail |-> <<>>]>> ELSE <<>>)
    \o <<[text |-> IF RLeq(RInt(80), result.overall_score) THEN StrongText
                   ELSE IF RLeq(RInt(60), result.overall_score) THEN GoodText
                   ELSE BelowText,
          detail |-> <<>>]>>

\* C10: the recommendations are, in order, the missing-skills entry iff
\* skills are missing, the education entry iff education_score < 80, the
\* experience entry iff experience_score < 70, and last the one verdict that
\* overall_score calls for, all judged on the scores reported in the result.
C10_RecommendationsFromReported ==
    Returned => result.recommendations = ReportedRecommendations

(***************************************************************************)
(* The job store: ResumeJobRepository (app/db/repositories.py) over the    *)
(* resume_jobs table, and the service's methods over it and over           *)
(* self.jobs.  A timestamp is "utcnow" once set.                           *)
(***************************************************************************)
\* a row of resume_jobs
ResumeJob(job_id, status, completed_at, error_message, extracted_json) ==
    [exists |-> TRUE, job_id |-> job_id, status |-> status,
     completed_at |-> completed_at, error_message |-> error_message,
     extracted_json |-> extracted_json]

\* the API model of a job
ResumeExtractionJob(job_id, status, completed_at, error_message, extracted_data) ==
    [exists |-> TRUE, job_id |-> job_id, status |-> status,
     completed_at |-> completed_at, error_message |-> error_message,
     extracted_data |-> extracted_data]

create_job(db_, job_id) ==
    [db_ EXCEPT ![job_id] = ResumeJob(job_id, "PENDING", None, None, None)]

\* set_processing writing nothing
set_processing_skipped(db_, job_id) ==
    db_

\* UPDATE ... WHERE job_id = ...: no row, no change
set_processing(db_, job_id) ==
    IF db_[job_id].exists
    THEN [db_ EXCEPT ![job_id].status = "PROCESSING"]
    ELSE db_

\* set_success inserting the row it does not find
set_success_upserting(db_, job_id, extracted_json) ==
    [db_ EXCEPT ![job_id] =
        [exists |-> TRUE, job_id |-> job_id, status |-> "SUCCESS",
         completed_at |-> Some("utcnow"), error_message |-> None,
         extracted_json |-> Some(extracted_json)]]

set_success(db_, job_id, extracted_json) ==
    IF db_[job_id].exists
    THEN [db_ EXCEPT ![job_id].status = "SUCCESS",
                     ![job_id].completed_at = Some("utcnow"),
                     ![job_id].error_message = None,
                     ![job_id].extracted_json = Some(extracted_json)]
    ELSE db_

\* set_error leaving completed_at alone
set_error_without_completion(db_, job_id, error_message) ==
    IF db_[job_id].exists
    THEN [db_ EXCEPT ![job_id].status = "ERROR",
                     ![job_id].error_message = Some(error_message)]
    ELSE db_

set_error(db_, job_id, error_message) ==
    IF db_[job_id].exists
    THEN [db_ EXCEPT ![job_id].status = "ERROR",
                     ![job_id].completed_at = Some("utcnow"),
                     ![job_id].error_message = Some(error_message)]
    ELSE db_

get_by_job_id(db_, job_id) ==
    IF job_id \in DOMAIN db_ THEN db_[job_id] ELSE NoJob

\* DELETE without its WHERE
repo_delete_every_job(db_, job_id) ==
    [db |-> [u \in DOMAIN db_ |-> NoJob],
     deleted |-> get_by_job_id(db_, job_id).exists]

\* DELETE ... WHERE job_id = ...: the table afterwards, and rowcount > 0
repo_delete_job(db_, job_id) ==
    [db |-> IF job_id \in DOMAIN db_ THEN [db_ EXCEPT ![job_id] = NoJob] ELSE db_,
     deleted |-> get_by_job_id(db_, job_id).exists]

\* Resume.model_dump(): the dictionary of the resume's fields
model_dump(resume_) ==
    [dict |-> resume_]

\* Resume(**extracted_json): the stored dictionaries are dumps of validated
\* resumes, which validate again
resume_from_json(extracted_json) ==
    Ok(extracted_json.dict)

\* create_extraction_job with the uuid it draws: the row is written to the
\* table on both branches, self.jobs is left alone; without the table the
\* INSERT raises
create_extraction_job(use_db_, tables_, db_, jobs_, job_id) ==
    IF ~tables_
    THEN [raised |-> TRUE, db |-> db_, jobs |-> jobs_, job_id |-> job_id]
    ELSE IF use_db_
    THEN [raised |-> FALSE, db |-> create_job(db_, job_id), jobs |-> jobs_,
          job_id |-> job_id]
    ELSE [raised |-> FALSE, db |-> create_job(db_, job_id), jobs |-> jobs_,
          job_id |-> job_id]

\* get_job_status: the outcomes of the call.  With the database in use the
\* query may fail, which raises; the row's dictionary that does not validate
\* gives extracted_data None.
get_job_status(use_db_, db_, jobs_, job_id) ==
    IF use_db_
    THEN LET db_job == get_by_job_id(db_, job_id)
             parsed == IF db_job.exists /\ ~db_job.extracted_json.none
                       THEN resume_from_json(db_job.extracted_json.val)
                       ELSE Raise("no json")
             extracted == IF parsed.raised THEN None ELSE Some(parsed.value)
         IN  {Raise("OperationalError")}
                \cup {Ok(IF ~db_job.exists
                         THEN NoJob
                         ELSE ResumeExtractionJob(db_job.job_id, db_job.status,
                                                  db_job.completed_at,
                                                  db_job.error_message, extracted))}
    ELSE {Ok(IF job_id \in DOMAIN jobs_ THEN jobs_[job_id] ELSE NoJob)}

\* delete_job: the store afterwards and the flag returned
delete_job(use_db_, db_, jobs_, job_id) ==
    IF use_db_
    THEN LET r == repo_delete_job(db_, job_id)
         IN  [db |-> r.db, jobs |-> jobs_, deleted |-> r.deleted]
    ELSE IF job_id \in DOMAIN jobs_ /\ jobs_[job_id].exists
         THEN [db |-> db_, jobs |-> [jobs_ EXCEPT ![job_id] = NoJob], deleted |-> TRUE]
         ELSE [db |-> db_, jobs |-> jobs_, deleted |-> FALSE]

(***************************************************************************)
(* Upload, extraction in the background, and deletion.                     *)
(***************************************************************************)
\* the variables of a call of screen_resume on its own
call_vars ==
    <<resume, criteria, weights, skills_score, education_score,
      experience_score, overall_score, result, again>>

\* those of them that a call made by the batch leaves alone
standalone_vars ==
    <<resume, skills_score, education_score, experience_score, overall_score,
      result, again>>

\* resumes the extraction agent finds in uploaded files
StrongResume ==
    Resume(Experiences(2), <<Education(DegMasterOfScience)>>,
           TechnicalSkills(<<SkPython>>, <<>>, <<>>), <<>>)
MiddleResume ==
    Resume(Experiences(1), <<>>, TechnicalSkills(<<SkPython>>, <<>>, <<>>), <<>>)
WeakResume ==
    Resume(<<>>, <<>>, TechnicalSkills(<<SkJava>>, <<>>, <<>>), <<>>)

ExtractedResumes ==
    {StrongResume, MiddleResume, WeakResume}

\* what self.agent.extract gives for a file: data of a resume, data that is
\* no resume, nothing, or an exception
ExtractionOutcomes ==
    {[kind |-> "data", data |-> model_dump(r)] : r \in ExtractedResumes}
        \cup {[kind |-> "invalid"], [kind |-> "empty"], [kind |-> "exception"]}

\* the table once the extraction's outcome is written, database in use
extraction_written(db_, job_id, outcome) ==
    CASE outcome.kind = "data" ->
            set_success(db_, job_id, model_dump(resume_from_json(outcome.data).value))
      [] outcome.kind = "invalid" ->
            set_error(db_, job_id, "Data validation failed")
      [] outcome.kind = "empty" ->
            set_error(db_, job_id, "No data could be extracted from the file")
      [] OTHER ->
            set_error(db_, job_id, "exception")

\* the job object once the extraction's outcome is written, self.jobs in use
job_extracted(job, outcome) ==
    CASE outcome.kind = "data" ->
            [job EXCEPT !.extracted_data = Some(resume_from_json(outcome.data).value),
                        !.status = "SUCCESS",
                        !.completed_at = Some("utcnow")]
      [] outcome.kind = "invalid" ->
            [job EXCEPT !.status = "ERROR",
                        !.error_message = Some("Data validation failed"),
                        !.completed_at = Some("utcnow")]
      [] outcome.kind = "empty" ->
            [job EXCEPT !.status = "ERROR",
                        !.error_message = Some("No data could be extracted from the file"),
                        !.completed_at = Some("utcnow")]
      [] OTHER ->
            [job EXCEPT !.status = "ERROR",
                        !.error_message = Some("exception"),
                        !.completed_at = Some("utcnow")]

\* what extract_resume_data returns with the database in use: the row read
\* back as an API model, a "Job not found" error if it is gone
extraction_returned(db_, job_id) ==
    LET db_job == get_by_job_id(db_, job_id)
    IN  IF db_job.exists
        THEN ResumeExtractionJob(job_id, db_job.status, db_job.completed_at,
                                 db_job.error_message,
                                 IF db_job.extracted_json.none THEN None
                                 ELSE Some(resume_from_json(db_job.extracted_json.val).value))
        ELSE ResumeExtractionJob(job_id, "ERROR", None, Some("Job not found"), None)

\* POST /upload-resume: the file is saved under one uuid, the job is created
\* under the uuid create_extraction_job draws, and the extraction is handed
\* to the background tasks; 500, with the file saved, if create_extraction_job
\* raises
UploadResume ==
    /\ uploads < MaxJobs
    /\ LET file_id == 2 * uploads + 1
           created == create_extraction_job(use_db, tables, db_jobs, jobs, 2 * uploads + 2)
       IN  /\ files' = files \cup {file_id}
           /\ db_jobs' = created.db
           /\ jobs' = created.jobs
           /\ tasks' = IF created.raised
                       THEN tasks
                       ELSE [tasks EXCEPT ![created.job_id] = [pc |-> "scheduled"]]
    /\ uploads' = uploads + 1
    /\ UNCHANGED <<use_db, tables, batch, response>>
    /\ UNCHANGED <<bulk, rendering>>
    /\ UNCHANGED call_vars

\* extract_resume_data up to the extraction: with the database the row is
\* set to PROCESSING and committed; without it the job is looked up in
\* self.jobs, ValueError if it is not there, and the rest of the method runs
\* without an await, the agent giving outcome
ExtractStart(job_id, outcome) ==
    /\ tasks[job_id].pc = "scheduled"
    /\ IF use_db
       THEN /\ db_jobs' = set_processing(db_jobs, job_id)
            /\ tasks' = [tasks EXCEPT ![job_id] = [pc |-> "extracting"]]
            /\ UNCHANGED jobs
       ELSE IF ~jobs[job_id].exists
            THEN /\ tasks' = [tasks EXCEPT ![job_id] = [pc |-> "raised"]]
                 /\ UNCHANGED <<db_jobs, jobs>>
            ELSE /\ jobs' = [jobs EXCEPT ![job_id] =
                                job_extracted([jobs[job_id] EXCEPT !.status = "PROCESSING"],
                                              outcome)]
                 /\ tasks' = [tasks EXCEPT ![job_id] =
                                 [pc |-> "returned", job |-> jobs'[job_id]]]
                 /\ UNCHANGED db_jobs
    /\ UNCHANGED <<use_db, tables, files, uploads, batch, response>>
    /\ UNCHANGED <<bulk, rendering>>
    /\ UNCHANGED call_vars

\* extract_resume_data from the extraction on, database in use: the agent
\* gives outcome, which is written and committed, and the row is read back
\* and returned
ExtractFinish(job_id, outcome) ==
    /\ tasks[job_id].pc = "extracting"
    /\ db_jobs' = extraction_written(db_jobs, job_id, outcome)
    /\ tasks' = [tasks EXCEPT ![job_id] =
                    [pc |-> "returned", job |-> extraction_returned(db_jobs', job_id)]]
    /\ UNCHANGED <<use_db, tables, jobs, files, uploads, batch, response>>
    /\ UNCHANGED <<bulk, rendering>>
    /\ UNCHANGED call_vars

\* DELETE /resume/{job_id}: 404 for a job get_job_status does not return,
\* 500 when it raises; else the job is deleted and so is the file named by
\* the job's id, and the answer is 200, or 404 if delete_job found nothing
delete_resume(use_db_, db_, jobs_, files_, job_id) ==
    {IF got.raised
     THEN [db |-> db_, jobs |-> jobs_, files |-> files_, status_code |-> 500]
     ELSE IF ~got.value.exists
     THEN [db |-> db_, jobs |-> jobs_, files |-> files_, status_code |-> 404]
     ELSE LET r == delete_job(use_db_, db_, jobs_, job_id)
          IN  [db |-> r.db, jobs |-> r.jobs, files |-> files_ \ {job_id},
               status_code |-> IF r.deleted THEN 200 ELSE 404] :
     got \in get_job_status(use_db_, db_, jobs_, job_id)}

DeleteResume(job_id) ==
    /\ \E r \in delete_resume(use_db, db_jobs, jobs, files, job_id) :
            /\ db_jobs' = r.db
            /\ jobs' = r.jobs
            /\ files' = r.files
            /\ response' = [request |-> "delete", job_id |-> job_id,
                            status_code |-> r.status_code]
    /\ UNCHANGED <<use_db, tables, tasks, uploads, batch>>
    /\ UNCHANGED <<bulk, rendering>>
    /\ UNCHANGED call_vars

\* get_resume_data without the check of the status
get_resume_data_without_400(use_db_, db_, jobs_, job_id) ==
    {IF got.raised THEN [status_code |-> 500]
     ELSE IF ~got.value.exists THEN [status_code |-> 404]
     ELSE IF got.value.extracted_data.none THEN [status_code |-> 404]
     ELSE [status_code |-> 200, content |-> got.value.extracted_data.val] :
     got \in get_job_status(use_db_, db_, jobs_, job_id)}

\* GET /resume/{job_id}/data: 404 for a job get_job_status does not return
\* and for one without data, 400 for one that is not in SUCCESS, 500 when
\* get_job_status raises
get_resume_data(use_db_, db_, jobs_, job_id) ==
    {IF got.raised THEN [status_code |-> 500]
     ELSE IF ~got.value.exists THEN [status_code |-> 404]
     ELSE IF got.value.status # "SUCCESS" THEN [status_code |-> 400]
     ELSE IF got.value.extracted_data.none THEN [status_code |-> 404]
     ELSE [status_code |-> 200, content |-> got.value.extracted_data.val] :
     got \in get_job_status(use_db_, db_, jobs_, job_id)}

GetResumeData(job_id) ==
    /\ \E r \in get_resume_data(use_db, db_jobs, jobs, job_id) :
            response' = [request |-> "data", job_id |-> job_id] @@ r
    /\ UNCHANGED <<use_db, tables, db_jobs, jobs, tasks, files, uploads, batch>>
    /\ UNCHANGED <<bulk, rendering>>
    /\ UNCHANGED call_vars

(***************************************************************************)
(* POST /screen-resumes and batch_screen_resumes.  The loop takes one      *)
(* identifier per step: get_job_status awaits the database, and what       *)
(* follows in the iteration runs without an await.                         *)
(***************************************************************************)
\* the identifiers a request names: one that names no job, and those the
\* uploads return
RequestIds ==
    {1} \cup {2 * k : k \in 1..MaxJobs}

\* if job and job.status == "SUCCESS" and job.extracted_data
is_screenable(job) ==
    job.exists /\ job.status = "SUCCESS" /\ ~job.extracted_data.none

\* every result is kept
keep_every_result(include_unqualified, result_) ==
    TRUE

\* only qualified results are kept
keep_only_qualified(include_unqualified, result_) ==
    result_.qualified

\* if include_unqualified or result.qualified
keep_result(include_unqualified, result_) ==
    include_unqualified \/ result_.qualified

\* the result of a call with the uuid the call drew as its resume_id
WithResumeId(result_, resume_id) ==
    [resume_id |-> resume_id] @@ result_

Reverse(list) ==
    [k \in 1..Len(list) |-> list[Len(list) + 1 - k]]

RECURSIVE sorted_ascending(_)
\* list.sort(key=lambda x: x.overall_score): stable, ascending
sorted_ascending(list) ==
    IF list = <<>>
    THEN <<>>
    ELSE LET init == sorted_ascending(SubSeq(list, 1, Len(list) - 1))
             x == list[Len(list)]
             k == Cardinality({j \in 1..Len(init) :
                                RLeq(init[j].overall_score, x.overall_score)})
         IN  SubSeq(init, 1, k) \o <<x>> \o SubSeq(init, k + 1, Len(init))

\* the ascending sort, reversed
sorted_then_reversed(list) ==
    Reverse(sorted_ascending(list))

RECURSIVE sorted_by_overall_score(_)
\* list.sort(key=lambda x: x.overall_score, reverse=True): descending, and
\* equal keys keep their order
sorted_by_overall_score(list) ==
    IF list = <<>>
    THEN <<>>
    ELSE LET init == sorted_by_overall_score(SubSeq(list, 1, Len(list) - 1))
             x == list[Len(list)]
             k == Cardinality({j \in 1..Len(init) :
                                RLeq(x.overall_score, init[j].overall_score)})
         IN  SubSeq(init, 1, k) \o <<x>> \o SubSeq(init, k + 1, Len(init))

\* what an iteration's get_job_status returned, as the loop's condition
\* reads it
LookedUp(job) ==
    IF job.exists
    THEN [found |-> TRUE, status |-> job.status, data |-> ~job.extracted_data.none]
    ELSE [found |-> FALSE, status |-> "", data |-> FALSE]

\* the request arrives: 400 for an empty job_ids, else batch_screen_resumes
\* is entered
ScreenResumes(job_ids, include_unqualified) ==
    /\ batch.pc = "idle"
    /\ IF job_ids = <<>>
       THEN /\ batch' = [pc |-> "rejected", job_ids |-> job_ids,
                         include_unqualified |-> include_unqualified,
                         i |-> 1, results |-> <<>>, looked_up |-> <<>>]
            /\ response' = [status_code |-> 400]
       ELSE /\ batch' = [pc |-> "running", job_ids |-> job_ids,
                         include_unqualified |-> include_unqualified,
                         i |-> 1, results |-> <<>>, looked_up |-> <<>>]
            /\ UNCHANGED response
    /\ UNCHANGED <<use_db, tables, db_jobs, jobs, tasks, files, uploads>>
    /\ UNCHANGED <<bulk, rendering>>
    /\ UNCHANGED call_vars

\* one iteration of the loop of batch_screen_resumes; an exception of
\* get_job_status leaves the method and the endpoint answers 500.  Without
\* the database the job returned is the object self.jobs holds, and
\* screen_resume is passed the resume of that object.
BatchIteration ==
    /\ batch.pc = "running"
    /\ batch.i <= Len(batch.job_ids)
    /\ \E got \in get_job_status(use_db, db_jobs, jobs, batch.job_ids[batch.i]) :
            IF got.raised
            THEN /\ batch' = [batch EXCEPT !.pc = "raised"]
                 /\ response' = [status_code |-> 500]
                 /\ UNCHANGED <<jobs, criteria, weights>>
            ELSE /\ UNCHANGED response
                 /\ IF is_screenable(got.value)
                    THEN /\ \E out \in screen_resume(got.value.extracted_data.val,
                                                     criteria, weights) :
                                batch' = [batch EXCEPT
                                    !.i = @ + 1,
                                    !.looked_up = Append(@, LookedUp(got.value)),
                                    !.results =
                                        IF /\ out.result.kind = "returned"
                                           /\ keep_result(batch.include_unqualified, out.result)
                                        THEN Append(@, WithResumeId(out.result, batch.i))
                                        ELSE @]
                         /\ LET after == arguments_after(got.value.extracted_data.val,
                                                         criteria, weights)
                            IN  /\ criteria' = after.criteria
                                /\ weights' = after.weights
                                /\ jobs' = IF use_db
                                           THEN jobs
                                           ELSE [jobs EXCEPT
                                                    ![batch.job_ids[batch.i]].extracted_data =
                                                        Some(after.resume)]
                    ELSE /\ batch' = [batch EXCEPT
                                    !.i = @ + 1,
                                    !.looked_up = Append(@, LookedUp(got.value))]
                         /\ UNCHANGED <<jobs, criteria, weights>>
    /\ UNCHANGED <<use_db, tables, db_jobs, tasks, files, uploads>>
    /\ UNCHANGED <<bulk, rendering>>
    /\ UNCHANGED standalone_vars

\* after the loop: the results are sorted and returned, and the endpoint
\* builds its response
BatchReturn ==
    /\ batch.pc = "running"
    /\ batch.i > Len(batch.job_ids)
    /\ LET results == sorted_by_overall_score(batch.results)
       IN  /\ batch' = [batch EXCEPT !.pc = "returned", !.results = results]
           /\ response' =
                [status_code |-> 200,
                 total_resumes |-> Len(batch.job_ids),
                 qualified_count |->
                    Cardinality({k \in 1..Len(results) : results[k].qualified}),
                 results |-> results]
    /\ UNCHANGED <<use_db, tables, db_jobs, jobs, tasks, files, uploads>>
    /\ UNCHANGED <<bulk, rendering>>
    /\ UNCHANGED call_vars

\* the criteria of the screen-resumes request
RequestCriteria ==
    {ScreeningCriteria(<<SkPythonLower>>, <<>>, SomeInt(4), NoneStr)}

\* the service after startup, with and without settings.DATABASE_URL: with
\* it the startup creates the tables, without it the session maker connects
\* to ./resume_jobs.db, which holds the table only if an earlier run left it
InitJobs ==
    /\ resume = StrongResume
    /\ criteria \in RequestCriteria
    /\ weights = DEFAULT_SCORING_WEIGHTS
    /\ InitCall
    /\ use_db \in BOOLEAN
    /\ tables \in (IF use_db THEN {TRUE} ELSE BOOLEAN)
    /\ InitService

\* uploads, extractions and deletions
NextJobs ==
    \/ UploadResume
    \/ \E job_id \in Uuids, outcome \in ExtractionOutcomes : ExtractStart(job_id, outcome)
    \/ \E job_id \in Uuids, outcome \in ExtractionOutcomes : ExtractFinish(job_id, outcome)
    \/ \E job_id \in RequestIds : DeleteResume(job_id)
    \/ \E job_id \in RequestIds : GetResumeData(job_id)

SpecJobs ==
    InitJobs /\ [][NextJobs]_vars

\* the outcomes of the extractions that go on while a request is screened
BatchOutcomes ==
    {[kind |-> "data", data |-> model_dump(r)] : r \in {StrongResume, WeakResume}}
        \cup {[kind |-> "empty"]}

\* a screen-resumes request for resumes uploaded before it, served while
\* their extractions go on
NextBatch ==
    \/ batch.pc = "idle" /\ UploadResume
    \/ \E job_id \in Uuids, outcome \in BatchOutcomes : ExtractStart(job_id, outcome)
    \/ \E job_id \in Uuids, outcome \in BatchOutcomes : ExtractFinish(job_id, outcome)
    \/ \E job_ids \in SeqUpTo(RequestIds, MaxBatch), include_unqualified \in BOOLEAN :
            ScreenResumes(job_ids, include_unqualified)
    \/ BatchIteration
    \/ BatchReturn

SpecBatch ==
    InitJobs /\ [][NextBatch]_vars

(***************************************************************************)
(* Properties of batch_screen_resumes and of POST /screen-resumes.         *)
(***************************************************************************)
BatchReturned ==
    batch.pc = "returned"

\* the positions in job_ids whose lookup gave a job that was screened
Screened ==
    {k \in 1..Len(batch.looked_up) :
        /\ batch.looked_up[k].found
        /\ batch.looked_up[k].status = "SUCCESS"
        /\ batch.looked_up[k].data}

\* the positions in job_ids whose results are in the list
ResultPositions ==
    {batch.results[k].resume_id : k \in 1..Len(batch.results)}

\* C11: with include_unqualified false the returned list holds only
\* qualified results; with include_unqualified true it holds the result of
\* every resume that was screened.
C11_IncludeUnqualified ==
    BatchReturned =>
        /\ ~batch.include_unqualified =>
                \A k \in 1..Len(batch.results) : batch.results[k].qualified
        /\ batch.include_unqualified =>
                /\ ResultPositions = Screened
                /\ Len(batch.results) = Cardinality(Screened)

\* C11 witness: a request without the unqualified results returned a
\* qualified result and left a screened resume's result out.
C11_Witness ==
    /\ BatchReturned
    /\ ~batch.include_unqualified
    /\ Len(batch.results) = 1
    /\ Cardinality(Screened) = 2

\* C12: the returned list is in non-increasing order of overall_score,
\* results of equal score are in the order of their identifiers in job_ids,
\* and the list is sorted only after every identifier was looked up: until
\* then the results are in the order in which they were appended.
C12_SortedStableAfterLoop ==
    /\ BatchReturned =>
            /\ Len(batch.looked_up) = Len(batch.job_ids)
            /\ \A a, b \in 1..Len(batch.results) :
                    a < b =>
                        /\ RLeq(batch.results[b].overall_score, batch.results[a].overall_score)
                        /\ batch.results[a].overall_score = batch.results[b].overall_score
                                => batch.results[a].resume_id < batch.results[b].resume_id
    /\ batch.pc = "running" =>
            \A a, b \in 1..Len(batch.results) :
                a < b => batch.results[a].resume_id < batch.results[b].resume_id

\* C12 witness: the sort moved a result ahead of one screened before it.
C12_Witness ==
    /\ BatchReturned
    /\ \E a, b \in 1..Len(batch.results) :
            /\ a < b
            /\ batch.results[a].resume_id > batch.results[b].resume_id
            /\ RLess(batch.results[b].overall_score, batch.results[a].overall_score)

\* C13: no exception leaves batch_screen_resumes, whether it was raised by
\* get_job_status or by screen_resume.
C13_NoExceptionPropagates ==
    batch.pc # "raised"

\* C14: a result is in the list only for an identifier whose lookup gave a
\* job in SUCCESS with extracted data; with include_unqualified true the
\* length of the returned list is the number of positions of job_ids whose
\* identifier was in SUCCESS when looked up.
C14_OnlySuccessScreened ==
    /\ batch.pc \in {"running", "returned"} =>
            \A k \in 1..Len(batch.results) :
                /\ batch.results[k].resume_id \in 1..Len(batch.looked_up)
                /\ batch.looked_up[batch.results[k].resume_id]
                        = [found |-> TRUE, status |-> "SUCCESS", data |-> TRUE]
    /\ (BatchReturned /\ batch.include_unqualified) =>
            Len(batch.results)
                = Cardinality({k \in 1..Len(batch.job_ids) :
                                batch.looked_up[k].status = "SUCCESS"})

\* C14 witness: a request with the unqualified results returned one result
\* for two identifiers, one of which was not in SUCCESS when looked up.
C14_Witness ==
    /\ BatchReturned
    /\ batch.include_unqualified
    /\ Len(batch.results) = 1
    /\ \E k \in 1..Len(batch.looked_up) :
            batch.looked_up[k].status \in {"PENDING", "PROCESSING", "ERROR"}

(***************************************************************************)
(* Properties of repeated calls, and of calls on empty inputs.             *)
(***************************************************************************)
CalledTwice ==
    result.kind # "none" /\ again.kind # "none"

C16_NeverRaises ==
    Called => Returned

\* C16 witness: a result for a resume without skills, experience, education
\* and accomplishments, against criteria without skills, with a minimum of 0
\* years and a level that is no key.
C16_Witness ==
    /\ Returned
    /\ resume = Resume(<<>>, <<>>, TechnicalSkills(<<>>, <<>>, <<>>), <<>>)
    /\ criteria = ScreeningCriteria(<<>>, <<>>, SomeInt(0), SomeStr(LvlMBA))

\* C17: screen_resume and batch_screen_resumes read and do not write: a step
\* of a call of screen_resume (it sets result or again) or of the batch (it
\* changes batch) leaves the job store, the resume and criteria passed in
\* and the scoring weights as they were.
C17_ReadOnly ==
    [][(result' # result \/ again' # again \/ batch' # batch)
            => UNCHANGED <<db_jobs, jobs, resume, criteria, weights>>]_vars

\* C17 witness: the batch screened the resume of a job of the table and
\* went on.
C17_Witness ==
    /\ batch.pc = "running"
    /\ Len(batch.results) = 1
    /\ batch.i = 2
    /\ \E j \in Uuids : db_jobs[j].exists /\ db_jobs[j].status = "SUCCESS"

(***************************************************************************)
(* Properties of the job store.                                            *)
(***************************************************************************)
\* the upload returned job_id
Created(job_id) ==
    tasks[job_id].pc # "none"

\* the row the upload wrote is gone
Deleted(job_id) ==
    Created(job_id) /\ ~db_jobs[job_id].exists

\* what get_job_status returns for job_id when it returns
JobStatus(job_id) ==
    (CHOOSE got \in get_job_status(use_db, db_jobs, jobs, job_id) : ~got.raised).value

\* the background tasks are run once their response is sent, and the
\* extraction returns or raises
FairSpecJobs ==
    /\ SpecJobs
    /\ \A job_id \in Uuids :
            /\ WF_vars(\E outcome \in ExtractionOutcomes : ExtractStart(job_id, outcome))
            /\ WF_vars(\E outcome \in ExtractionOutcomes : ExtractFinish(job_id, outcome))

\* C18: a job whose id an upload returned is eventually in SUCCESS or
\* ERROR, unless it is deleted, whether or not a database URL is configured.
C18_EventuallyFinished ==
    \A job_id \in Uuids :
        (tasks[job_id].pc = "scheduled")
            ~> (\/ Deleted(job_id)
                \/ /\ JobStatus(job_id).exists
                   /\ JobStatus(job_id).status \in {"SUCCESS", "ERROR"})

\* C19: for a job that was created and not deleted, get_job_status returns
\* a job with that id, in PENDING until the extraction starts, whether or
\* not a database URL is configured; it never returns None for it.
C19_CreatedJobFound ==
    \A job_id \in Uuids :
        (Created(job_id) /\ ~Deleted(job_id)) =>
            /\ JobStatus(job_id).exists
            /\ JobStatus(job_id).job_id = job_id
            /\ tasks[job_id].pc = "scheduled" => JobStatus(job_id).status = "PENDING"

\* C20: total_resumes of the response is the number of identifiers of the
\* request that were looked up in SUCCESS and screened.
C20_TotalResumesIsScreened ==
    response.status_code = 200 =>
        response.total_resumes = Cardinality(Screened)

(***************************************************************************)
(* POST /create-template/{job_id}: the candidate data built from the job's *)
(* resume, AiAdapterService.tailor_candidate and TemplateManager.  A       *)
(* dictionary is a function from its keys; a value records whether it is a *)
(* dictionary, where it comes from ("original", "ai", "default") and, for  *)
(* a list of experiences, whether one of them has description None.        *)
(***************************************************************************)
MaxTemplateId == 4

required_keys ==
    {"name", "email", "links", "experience", "education", "technical_skills",
     "key_accomplishments"}

technical_skills_keys ==
    {"programming_languages", "frameworks", "skills"}

\* the keys the endpoint adds for the templates
additional_keys ==
    {"title", "location", "phone", "portfolio_url", "github_url", "languages"}

Plain(from, undescribed) ==
    [isdict |-> FALSE, from |-> from, undescribed |-> undescribed]

Dict(items) ==
    [isdict |-> TRUE, items |-> items]

\* {}
EmptyItems ==
    [key \in {} |-> Plain("default", FALSE)]

\* d.get(key, default)
Get(d, key, default) ==
    IF key \in DOMAIN d THEN d[key] ELSE default

\* the dictionary the endpoint builds from job.extracted_data; Experience's
\* description is Optional and is copied as it is
candidate_data_of(undescribed) ==
    [key \in required_keys \cup additional_keys |->
        CASE key = "technical_skills" ->
                Dict([k \in technical_skills_keys |-> Plain("original", FALSE)])
          [] key = "experience" -> Plain("original", undescribed)
          [] OTHER -> Plain("original", FALSE)]

_get_default_value(key) ==
    IF key = "technical_skills"
    THEN Dict([k \in technical_skills_keys |-> Plain("default", FALSE)])
    ELSE Plain("default", FALSE)

\* tech_skills.setdefault(k, []) for the three keys
with_skill_defaults(tech_skills) ==
    Dict([k \in DOMAIN tech_skills.items \cup technical_skills_keys |->
            Get(tech_skills.items, k, Plain("default", FALSE))])

\* _ensure_required_keys filling in the top-level keys only
ensure_top_level_keys(updated_data, original_data) ==
    [updated_data |->
        [key \in DOMAIN updated_data \cup required_keys |->
            IF key \in DOMAIN updated_data THEN updated_data[key]
            ELSE Get(original_data, key, _get_default_value(key))],
     original_data |-> original_data]

\* _ensure_required_keys: the two dictionaries afterwards.  A technical_skills
\* taken over from original_data is the same object, so its setdefault calls
\* reach original_data too
_ensure_required_keys(updated_data, original_data) ==
    LET filled == [key \in DOMAIN updated_data \cup required_keys |->
                      IF key \in DOMAIN updated_data THEN updated_data[key]
                      ELSE Get(original_data, key, _get_default_value(key))]
        tech_skills == filled["technical_skills"]
        shared == /\ "technical_skills" \notin DOMAIN updated_data
                  /\ "technical_skills" \in DOMAIN original_data
    IN  IF ~tech_skills.isdict
        THEN [updated_data |-> [filled EXCEPT !["technical_skills"] =
                                   Get(original_data, "technical_skills", Dict(EmptyItems))],
              original_data |-> original_data]
        ELSE [updated_data |-> [filled EXCEPT !["technical_skills"] =
                                   with_skill_defaults(tech_skills)],
              original_data |-> IF shared
                                THEN [original_data EXCEPT !["technical_skills"] =
                                         with_skill_defaults(tech_skills)]
                                ELSE original_data]

\* what the chat completion gives: an exception, a message without content,
\* content that is no JSON, JSON that is no object, or a JSON object
AnswerSkills ==
    {Plain("ai", FALSE)}
        \cup {Dict([k \in ks |-> Plain("ai", FALSE)]) : ks \in SUBSET technical_skills_keys}

\* the JSON objects: any of the required keys, technical_skills a dictionary
\* with any of its keys or no dictionary, experiences with or without their
\* descriptions
AnswerObjects ==
    {[key \in present |->
        CASE key = "technical_skills" -> skills
          [] key = "experience" -> Plain("ai", undescribed)
          [] OTHER -> Plain("ai", FALSE)] :
     present \in SUBSET required_keys, undescribed \in BOOLEAN, skills \in AnswerSkills}

Answers ==
    {[kind |-> "raises"], [kind |-> "no content"], [kind |-> "no json"], [kind |-> "no object"]}
        \cup {[kind |-> "object", object |-> object] : object \in AnswerObjects}

\* tailor_candidate: what it returns, and candidate_data after the call.  The
\* prompt's json.dumps(candidate_data) is outside the try; the values the
\* endpoint puts in candidate_data are str, list, dict and None, which it
\* serialises
tailor_candidate(client, candidate_data, job_description, answer) ==
    IF job_description.none \/ Len(job_description.val) = 0
          \/ Len(Strip(job_description.val)) = 0
    THEN [returned |-> Ok(candidate_data), candidate_data |-> candidate_data]
    ELSE IF ~client
    THEN [returned |-> Ok(candidate_data), candidate_data |-> candidate_data]
    ELSE IF answer.kind # "object"
    THEN [returned |-> Ok(candidate_data), candidate_data |-> candidate_data]
    ELSE LET ensured == _ensure_required_keys(answer.object, candidate_data)
         IN  [returned |-> Ok(ensured.updated_data),
              candidate_data |-> ensured.original_data]

_generate_template_1(candidate_data) ==
    Ok([template |-> 1])

_generate_template_2(candidate_data) ==
    Ok([template |-> 2])

\* for desc in desc_list, with desc_list the experience's description
_generate_template_3(candidate_data) ==
    IF Get(candidate_data, "experience", Plain("default", FALSE)).undescribed
    THEN Raise("TypeError")
    ELSE Ok([template |-> 3])

\* get_template taking every positive id below 3 and 3
get_template_up_to_3(template_id, candidate_data) ==
    IF template_id = 3 THEN _generate_template_3(candidate_data)
    ELSE IF template_id = 2 THEN _generate_template_2(candidate_data)
    ELSE IF template_id <= 1 THEN _generate_template_1(candidate_data)
    ELSE Raise("ValueError")

get_template(template_id, candidate_data) ==
    IF template_id = 1 THEN _generate_template_1(candidate_data)
    ELSE IF template_id = 2 THEN _generate_template_2(candidate_data)
    ELSE IF template_id = 3 THEN _generate_template_3(candidate_data)
    ELSE Raise("ValueError")

\* the keys of the dictionary get_available_templates returns
get_available_templates ==
    {1, 2, 3}

\* the job descriptions of a request: none, empty, blank and a text
JobDescriptions ==
    {NoneStr, SomeStr(<<>>), SomeStr(<<" ">>), SomeStr(<<" ", "j", " ">>)}

\* a call of tailor_candidate on the data of a job, with or without an AI
\* client, and the template asked for
Renderings ==
    {[pc |-> "called", client |-> client,
      candidate_data |-> candidate_data_of(undescribed),
      job_description |-> job_description, template_id |-> template_id] :
     client \in BOOLEAN, undescribed \in BOOLEAN,
     job_description \in JobDescriptions, template_id \in 0..MaxTemplateId}

InitTemplate ==
    /\ resume = StrongResume
    /\ criteria \in RequestCriteria
    /\ weights = DEFAULT_SCORING_WEIGHTS
    /\ InitCall
    /\ use_db = FALSE
    /\ tables = FALSE
    /\ db_jobs = [u \in Uuids |-> NoJob]
    /\ jobs = [u \in Uuids |-> NoJob]
    /\ tasks = [u \in Uuids |-> NoTask]
    /\ files = {}
    /\ uploads = 0
    /\ batch = IdleBatch
    /\ response = NoResponse
    /\ bulk = IdleBulk
    /\ rendering \in Renderings

\* tailor_candidate(candidate_data, job_description), the chat completion
\* giving answer
TailorCandidate(answer) ==
    /\ rendering.pc = "called"
    /\ LET tailored == tailor_candidate(rendering.client, rendering.candidate_data,
                                        rendering.job_description, answer)
       IN  rendering' = [pc |-> "tailored", client |-> rendering.client,
                         candidate_data |-> rendering.candidate_data,
                         job_description |-> rendering.job_description,
                         template_id |-> rendering.template_id,
                         answer |-> answer,
                         returned |-> tailored.returned,
                         candidate_data_after |-> tailored.candidate_data]
    /\ UNCHANGED <<use_db, tables, db_jobs, jobs, tasks, files, uploads, batch, response, bulk>>
    /\ UNCHANGED call_vars

\* get_template(template_id, candidate_data) on what tailor_candidate
\* returned; the endpoint answers 200 with the page, 500 if it raises
GetTemplate ==
    /\ rendering.pc = "tailored"
    /\ LET html_content == get_template(rendering.template_id, rendering.returned.value)
       IN  /\ rendering' = [pc |-> "rendered", template_id |-> rendering.template_id,
                            candidate_data |-> rendering.returned.value,
                            html_content |-> html_content]
           /\ response' = IF html_content.raised
                          THEN [status_code |-> 500, detail |-> html_content.exc]
                          ELSE [status_code |-> 200, content |-> html_content.value]
    /\ UNCHANGED <<use_db, tables, db_jobs, jobs, tasks, files, uploads, batch, bulk>>
    /\ UNCHANGED call_vars

NextTemplate ==
    \/ \E answer \in Answers : TailorCandidate(answer)
    \/ GetTemplate

SpecTemplate ==
    InitTemplate /\ [][NextTemplate]_vars

\* C21: get_template raises ValueError for exactly the template ids other
\* than 1, 2 and 3, and the keys of get_available_templates are exactly the
\* ids it does not raise ValueError for.
C21_TemplateIds ==
    rendering.pc = "rendered" =>
        /\ (rendering.html_content.raised /\ rendering.html_content.exc = "ValueError")
              <=> rendering.template_id \notin {1, 2, 3}
        /\ get_available_templates =
              {template_id \in 0..MaxTemplateId :
                  LET got == get_template(template_id, rendering.candidate_data)
                  IN  ~(got.raised /\ got.exc = "ValueError")}

\* C21 witness: template id 0 has raised ValueError.
C21_Witness ==
    /\ rendering.pc = "rendered"
    /\ rendering.template_id = 0
    /\ rendering.html_content = Raise("ValueError")
    /\ response.status_code = 500

\* C21 witness of an accepted id: template 2 has been generated.
C21_WitnessAccepted ==
    /\ rendering.pc = "rendered"
    /\ rendering.template_id = 2
    /\ ~rendering.html_content.raised

\* true when tailor_candidate hands back its argument
ReturnsOriginal ==
    /\ ~rendering.returned.raised
    /\ rendering.returned.value = rendering.candidate_data
    /\ rendering.candidate_data_after = rendering.candidate_data

\* true when the AI is asked and answers with a JSON object
Tailored ==
    /\ rendering.pc = "tailored"
    /\ ~rendering.job_description.none
    /\ Len(Strip(rendering.job_description.val)) > 0
    /\ rendering.client
    /\ rendering.answer.kind = "object"

C30_WitnessFailed ==
    /\ rendering.pc = "tailored"
    /\ rendering.client
    /\ Len(Strip(rendering.job_description.val)) > 0
    /\ rendering.answer.kind = "no json"
    /\ ReturnsOriginal

\* the positions of the entries that are not empty or blank
KeptPositions(list) ==
    {i \in 1..Len(list) : Strip(list[i]) # <<>>}

\* the k-th of them
KeptPosition(list, k) ==
    CHOOSE i \in KeptPositions(list) :
        Cardinality({j \in KeptPositions(list) : j < i}) = k - 1

\* the normalized list holds, in their order, the kept entries trimmed and
\* lowercased, and normalizing it again changes nothing
NormalizedInOrder(list) ==
    LET normalized == _normalize_skills(list)
    IN  /\ Len(normalized) = Cardinality(KeptPositions(list))
        /\ \A k \in 1..Len(normalized) :
              normalized[k] = Lower(Strip(list[KeptPosition(list, k)]))
        /\ _normalize_skills(normalized) = normalized

\* the lists screen_resume normalizes
SkillLists ==
    {all_skills(resume), criteria.required_skills, criteria.preferred_skills}

\* C22: _normalize_skills returns the list without its empty and blank
\* entries, every other entry lowercased and trimmed, in their order, and it
\* is idempotent; the result is a new list.
C22_NormalizeSkills ==
    Called => \A list \in SkillLists : NormalizedInOrder(list)

\* C22 witness: screen_resume has normalized required skills that hold a
\* blank entry before "Python".
C22_Witness ==
    /\ Called
    /\ criteria.required_skills = <<SkBlank, SkPython>>
    /\ _normalize_skills(criteria.required_skills) = <<SkPythonLower>>

\* the job as the store in use holds it
StoredJob(job_id) ==
    IF use_db THEN db_jobs[job_id] ELSE jobs[job_id]

\* the resume stored with it, if any
StoredData(job_id) ==
    IF use_db
    THEN (IF db_jobs[job_id].extracted_json.none THEN None
          ELSE Some(db_jobs[job_id].extracted_json.val.dict))
    ELSE jobs[job_id].extracted_data

\* what the data endpoint is to answer for job_id, get_job_status returning
DataAnswer(job_id) ==
    IF ~StoredJob(job_id).exists THEN [status_code |-> 404]
    ELSE IF StoredJob(job_id).status \in {"PENDING", "PROCESSING", "ERROR"}
    THEN [status_code |-> 400]
    ELSE IF StoredData(job_id).none THEN [status_code |-> 404]
    ELSE [status_code |-> 200, content |-> StoredData(job_id).val]

\* C23: get_resume_data answers 404 for an unknown job, 400 for a job in
\* PENDING, PROCESSING or ERROR, 404 for a job in SUCCESS without data, and
\* the stored data for a job in SUCCESS with data, and for no other job.
C23_ResumeData ==
    \A job_id \in RequestIds :
        \A r \in get_resume_data(use_db, db_jobs, jobs, job_id) :
            /\ r.status_code # 500 => r = DataAnswer(job_id)
            /\ r.status_code = 200 =>
                  /\ StoredJob(job_id).exists
                  /\ StoredJob(job_id).status = "SUCCESS"

\* C23 witness: the data of a job in SUCCESS has been returned.
C23_Witness ==
    /\ response.status_code = 200
    /\ response.request = "data"
    /\ StoredJob(response.job_id).exists
    /\ StoredJob(response.job_id).status = "SUCCESS"
    /\ response.content = StoredData(response.job_id).val

\* C23 witness of a refusal: 400 for a job that is being processed.
C23_WitnessRefused ==
    /\ response.status_code = 400
    /\ response.request = "data"
    /\ StoredJob(response.job_id).exists
    /\ StoredJob(response.job_id).status = "PROCESSING"

Statuses ==
    {"PENDING", "PROCESSING", "SUCCESS", "ERROR"}

StatusMoves ==
    {<<"PENDING", "PROCESSING">>, <<"PROCESSING", "SUCCESS">>,
     <<"PROCESSING", "ERROR">>}

\* a step from job before to job after is no step, a creation in PENDING, a
\* deletion, or one of the moves
MovesForward(before, after) ==
    /\ after.exists => after.status \in Statuses
    /\ (~before.exists /\ after.exists) => after.status = "PENDING"
    /\ (before.exists /\ after.exists) =>
          \/ after.status = before.status
          \/ <<before.status, after.status>> \in StatusMoves

\* C24: the status of a job is always one of PENDING, PROCESSING, SUCCESS
\* and ERROR, and changes only from PENDING to PROCESSING and from
\* PROCESSING to SUCCESS or ERROR: never backwards, and never once it is
\* SUCCESS or ERROR.
C24_StatusMovesForward ==
    [][\A job_id \in Uuids :
          /\ MovesForward(db_jobs[job_id], db_jobs'[job_id])
          /\ MovesForward(jobs[job_id], jobs'[job_id])]_vars

\* C24 witness: one job has gone through to SUCCESS and another to ERROR.
C24_Witness ==
    \E a, b \in Uuids :
        /\ tasks[a].pc = "returned"
        /\ tasks[b].pc = "returned"
        /\ db_jobs[a].exists
        /\ db_jobs[a].status = "SUCCESS"
        /\ db_jobs[b].exists
        /\ db_jobs[b].status = "ERROR"

\* completed_at, data and error message of job agree with its status
Consistent(job, data) ==
    job.exists =>
        /\ ~job.completed_at.none <=> job.status \in {"SUCCESS", "ERROR"}
        /\ ~data.none => job.status = "SUCCESS"
        /\ ~job.error_message.none <=> job.status = "ERROR"

\* C25: for every stored job, completed_at is set exactly when the status is
\* SUCCESS or ERROR, extracted data is stored only when it is SUCCESS, and an
\* error message is stored exactly when it is ERROR.
C25_StoredJobConsistent ==
    \A job_id \in Uuids :
        /\ Consistent(db_jobs[job_id],
                      IF db_jobs[job_id].exists THEN db_jobs[job_id].extracted_json
                      ELSE None)
        /\ Consistent(jobs[job_id],
                      IF jobs[job_id].exists THEN jobs[job_id].extracted_data
                      ELSE None)

\* C25 witness: a job in ERROR is stored with its message and completed_at.
C25_Witness ==
    \E job_id \in Uuids :
        /\ db_jobs[job_id].exists
        /\ db_jobs[job_id].status = "ERROR"
        /\ ~db_jobs[job_id].error_message.none
        /\ ~db_jobs[job_id].completed_at.none
        /\ db_jobs[job_id].extracted_json.none

\* C26: delete_job returns true exactly when the store holds a job with the
\* id; afterwards get_job_status returns no job for it, a second delete_job
\* returns false and DELETE answers 404, and every other job is as it was.
C26_DeleteJob ==
    \A job_id \in RequestIds :
        LET r == delete_job(use_db, db_jobs, jobs, job_id)
        IN  /\ r.deleted <=> StoredJob(job_id).exists
            /\ \A got \in get_job_status(use_db, r.db, r.jobs, job_id) :
                  ~got.raised => ~got.value.exists
            /\ ~delete_job(use_db, r.db, r.jobs, job_id).deleted
            /\ \A second \in delete_resume(use_db, r.db, r.jobs, files, job_id) :
                  second.status_code \in {404, 500}
            /\ \A other \in Uuids \ {job_id} :
                  /\ r.db[other] = db_jobs[other]
                  /\ r.jobs[other] = jobs[other]

\* C26 witness: a job was deleted while another is stored, and the second
\* DELETE for it was answered 404.
C26_Witness ==
    /\ use_db
    /\ response.status_code = 404
    /\ response.request = "delete"
    /\ Deleted(response.job_id)
    /\ \E other \in Uuids : db_jobs[other].exists

\* the last request served deleted a job
JustDeleted ==
    /\ response.status_code = 200
    /\ response.request = "delete"

\* C27: a job deleted while its extraction is scheduled or running stays
\* deleted: the extraction's writes do not create it again, and
\* get_job_status returns no job for it.
C27_StaysDeleted ==
    JustDeleted =>
        /\ ~db_jobs[response.job_id].exists
        /\ ~jobs[response.job_id].exists
        /\ \A got \in get_job_status(use_db, db_jobs, jobs, response.job_id) :
              ~got.raised => ~got.value.exists

\* C27 witness: the extraction of a deleted job has returned, having found
\* no row to read back.
C27_Witness ==
    /\ JustDeleted
    /\ tasks[response.job_id].pc = "returned"
    /\ tasks[response.job_id].job.error_message = Some("Job not found")

\* the uuid under which the upload that returned job_id saved its file
FileOf(job_id) ==
    job_id - 1

\* C28: the file of an upload is saved under the job id the upload returns,
\* so that once DELETE has deleted that job no file of the upload is left.
C28_FileDeleted ==
    \A job_id \in Uuids :
        (Created(job_id) /\ JustDeleted /\ response.job_id = job_id) =>
            FileOf(job_id) \notin files

(***************************************************************************)
(* POST /bulk-upload.  The loop takes one file per step; a file that fails *)
(* its validation is not saved and no job is created for it.               *)
(***************************************************************************)
BulkLimit == 50

\* a file that passes FileHandler.validate_file, and one that does not
FileKinds ==
    {"valid", "invalid"}

\* n files that fail their validation
InvalidFiles(n) ==
    [i \in 1..n |-> "invalid"]

\* the requests: up to MaxJobs files of either kind, as many files as the
\* limit allows, and one more than that
BulkRequests ==
    SeqUpTo(FileKinds, MaxJobs)
        \cup {InvalidFiles(BulkLimit), InvalidFiles(BulkLimit + 1)}

\* len(files) > 50 with the limit itself refused
too_many_from_limit(files_) ==
    Len(files_) >= BulkLimit

\* if len(files) > 50
too_many(files_) ==
    Len(files_) > BulkLimit

\* the request arrives: 400 for too many files, else the loop is entered
BulkUploadResumes(files_) ==
    /\ bulk.pc = "idle"
    /\ IF too_many(files_)
       THEN /\ bulk' = [pc |-> "rejected", files |-> files_]
            /\ response' = [status_code |-> 400]
       ELSE /\ bulk' = [pc |-> "running", files |-> files_, index |-> 1,
                        job_ids |-> <<>>, errors |-> <<>>,
                        successful_uploads |-> 0, background_tasks |-> <<>>]
            /\ UNCHANGED response
    /\ UNCHANGED <<use_db, tables, db_jobs, jobs, tasks, files, uploads, batch, rendering>>
    /\ UNCHANGED call_vars

\* one iteration of the loop: save_uploaded_file raises for a file that is
\* not valid; for a valid one the file is saved under one uuid and the job
\* created under another, which is appended to job_ids and handed to the
\* background tasks; whatever is raised becomes an entry of errors
BulkIteration ==
    /\ bulk.pc = "running"
    /\ bulk.index <= Len(bulk.files)
    /\ IF bulk.files[bulk.index] = "invalid"
       THEN /\ bulk' = [bulk EXCEPT !.index = @ + 1,
                                    !.errors = Append(@, bulk.index)]
            /\ UNCHANGED <<db_jobs, jobs, files, uploads>>
       ELSE LET file_id == 2 * uploads + 1
                created == create_extraction_job(use_db, tables, db_jobs, jobs,
                                                 2 * uploads + 2)
            IN  /\ files' = files \cup {file_id}
                /\ db_jobs' = created.db
                /\ jobs' = created.jobs
                /\ uploads' = uploads + 1
                /\ bulk' = IF created.raised
                           THEN [bulk EXCEPT !.index = @ + 1,
                                             !.errors = Append(@, bulk.index)]
                           ELSE [bulk EXCEPT !.index = @ + 1,
                                             !.job_ids = Append(@, created.job_id),
                                             !.background_tasks = Append(@, created.job_id),
                                             !.successful_uploads = @ + 1]
    /\ UNCHANGED <<use_db, tables, tasks, batch, response, rendering>>
    /\ UNCHANGED call_vars

\* the loop is over: the summary is returned and the background tasks are
\* started
BulkReturn ==
    /\ bulk.pc = "running"
    /\ bulk.index > Len(bulk.files)
    /\ response' = [status_code |-> 200,
                    total_files |-> Len(bulk.files),
                    successful_uploads |-> bulk.successful_uploads,
                    failed_uploads |-> Len(bulk.errors),
                    job_ids |-> bulk.job_ids,
                    errors |-> bulk.errors]
    /\ tasks' = [job_id \in DOMAIN tasks |->
                    IF \E k \in 1..Len(bulk.background_tasks) :
                          bulk.background_tasks[k] = job_id
                    THEN [pc |-> "scheduled"]
                    ELSE tasks[job_id]]
    /\ bulk' = [bulk EXCEPT !.pc = "returned"]
    /\ UNCHANGED <<use_db, tables, db_jobs, jobs, files, uploads, batch, rendering>>
    /\ UNCHANGED call_vars

NextBulk ==
    \/ \E files_ \in BulkRequests : BulkUploadResumes(files_)
    \/ BulkIteration
    \/ BulkReturn
    \/ \E job_id \in Uuids, outcome \in ExtractionOutcomes : ExtractStart(job_id, outcome)
    \/ \E job_id \in Uuids, outcome \in ExtractionOutcomes : ExtractFinish(job_id, outcome)

SpecBulk ==
    InitJobs /\ [][NextBulk]_vars

\* the number of entries of list equal to x
Occurrences(list, x) ==
    Cardinality({k \in 1..Len(list) : list[k] = x})

\* the positions of the valid files of the request
ValidPositions ==
    {i \in 1..Len(bulk.files) : bulk.files[i] = "valid"}

\* C29: a bulk upload of at most 50 files returns successful_uploads +
\* failed_uploads = total_files, as many job ids as successful uploads and as
\* many errors as failed ones; a file that fails does not keep the others
\* from being processed; each returned job id has exactly one extraction
\* scheduled; more than 50 files are refused with 400 and create no job.
C29_BulkUpload ==
    /\ bulk.pc # "idle" => (bulk.pc = "rejected" <=> Len(bulk.files) > BulkLimit)
    /\ bulk.pc = "rejected" =>
          /\ response.status_code = 400
          /\ \A job_id \in Uuids : ~db_jobs[job_id].exists /\ tasks[job_id].pc = "none"
    /\ bulk.pc = "returned" =>
          /\ response.status_code = 200
          /\ response.total_files = Len(bulk.files)
          /\ response.successful_uploads + response.failed_uploads = response.total_files
          /\ Len(response.job_ids) = response.successful_uploads
          /\ Len(response.errors) = response.failed_uploads
          /\ tables => response.successful_uploads = Cardinality(ValidPositions)
          /\ \A i \in 1..Len(bulk.files) :
                Occurrences(response.errors, i) = (IF i \in ValidPositions /\ tables THEN 0 ELSE 1)
          /\ \A k \in 1..Len(response.job_ids) :
                /\ Occurrences(bulk.background_tasks, response.job_ids[k]) = 1
                /\ tasks[response.job_ids[k]].pc # "none"

\* C29 witness: the first of two files failed, the second was uploaded and
\* its extraction scheduled.
C29_Witness ==
    /\ bulk.pc = "returned"
    /\ bulk.files = <<"invalid", "valid">>
    /\ response.total_files = 2
    /\ response.successful_uploads = 1
    /\ response.failed_uploads = 1
    /\ Len(response.job_ids) = 1
    /\ tasks[response.job_ids[1]].pc = "scheduled"

\* C29 witness of the limit: a request of exactly 50 files was taken.
C29_WitnessLimit ==
    /\ bulk.pc = "returned"
    /\ Len(bulk.files) = BulkLimit
    /\ response.failed_uploads = BulkLimit

=============================================================================
